---- MODULE Spec2Model ----
(***************************************************************************)
(* Model of scripts/setup-config.py: the interactive configuration         *)
(* collector of the Inkplate smart display.  One run of main() prompts for *)
(* eight answers through get_input(), derives refresh_ms, builds the       *)
(* config dictionary and writes it as JSON to data/config.json.            *)
(*                                                                         *)
(* Text is modelled as sequences of one-character strings, so that         *)
(* str.strip(), int() and json.dump() are modelled by what they do to the  *)
(* characters.  Python integers are unbounded: they are modelled as a sign *)
(* and a sequence of decimal digits, most significant first.               *)
(***************************************************************************)
EXTENDS Integers, Sequences, FiniteSets, TLC

VARIABLES
    pc,          \* position of main(): a prompt, a later statement, or an end state
    seen,        \* lines read so far by the get_input() call in progress
    returned,    \* <<>> or <<r>>: the last completed get_input() call
    answers,     \* local variables of main() assigned so far by the prompts
    refresh_ms,  \* <<>> until line 49 has run, then <<n>>
    config,      \* <<>> until lines 53-77 have run, then <<dict>>
    data,        \* the path "data": "absent", "dir" or "notdir"
    file,        \* data/config.json: [exists, text]
    handle,      \* TRUE while the file object of line 84 is open
    out,         \* the messages of lines 87-95 printed so far
    raised,      \* "" or the statement whose exception ended the run
    run,         \* 1 for the first run of the tool, 2 for a repeated run
    tape,        \* the lines typed during the first run, in order
    pos,         \* how many lines of the tape the repeated run has consumed
    prevData,    \* the path "data" as it was when this run started
    prevFile     \* data/config.json as it was when this run started

envVars == <<run, tape, pos, prevData, prevFile>>
vars    == <<pc, seen, returned, answers, refresh_ms, config, data, file, handle, out,
             raised, run, tape, pos, prevData, prevFile>>

----------------------------------------------------------------------------
(* Characters and str.strip()                                              *)

Whitespace == {" ", "\t"}

DigitChars == <<"0", "1", "2", "3", "4", "5", "6", "7", "8", "9">>

IsDigit(c) == \E i \in 1..10 : DigitChars[i] = c

DigitVal(c) == (CHOOSE i \in 1..10 : DigitChars[i] = c) - 1

RECURSIVE LStrip(_)
LStrip(s) ==
    IF s # <<>> /\ Head(s) \in Whitespace THEN LStrip(Tail(s)) ELSE s

RECURSIVE RStrip(_)
RStrip(s) ==
    IF s # <<>> /\ s[Len(s)] \in Whitespace
    THEN RStrip(SubSeq(s, 1, Len(s) - 1))
    ELSE s

Strip(s) == RStrip(LStrip(s))

----------------------------------------------------------------------------
(* Python integers: int(str) and multiplication                            *)

\* The arithmetic is defined by functions: a function's arguments are values,
\* so a nested product is evaluated once at each level.

\* a magnitude without leading zeros
DropZeros[m \in Seq(0..9)] ==
    IF Len(m) > 1 /\ Head(m) = 0 THEN DropZeros[Tail(m)] ELSE m

\* the integer of a sign and a magnitude: no leading zeros, no negative zero
Canonical[neg \in BOOLEAN, mag \in Seq(0..9)] ==
    [neg |-> neg /\ DropZeros[mag] # <<0>>, mag |-> DropZeros[mag]]

PyIntOf(neg, mag) == Canonical[neg, mag]

DecimalDigits[k \in Nat] ==
    IF k < 10 THEN <<k>> ELSE DecimalDigits[k \div 10] \o <<k % 10>>

\* a small non-negative literal as a Python integer
SmallInt(n) == PyIntOf(FALSE, DecimalDigits[n])

Unsigned(s) ==
    IF s # <<>> /\ Head(s) \in {"+", "-"} THEN Tail(s) ELSE s

NoUnderscores(s) == SelectSeq(s, LAMBDA c : c # "_")

\* int(s), base 10: surrounding whitespace, an optional sign, then decimal
\* digits in which single underscores may separate digits.
IntLiteral(s) ==
    LET b == Unsigned(Strip(s))
    IN  /\ b # <<>>
        /\ IsDigit(b[1])
        /\ IsDigit(b[Len(b)])
        /\ \A i \in 1..Len(b) : IsDigit(b[i]) \/ b[i] = "_"
        /\ \A i \in 1..(Len(b) - 1) : ~(b[i] = "_" /\ b[i + 1] = "_")

PyInt(s) ==
    LET t == Strip(s)
        d == NoUnderscores(Unsigned(t))
    IN  PyIntOf(Head(t) = "-", [i \in 1..Len(d) |-> DigitVal(d[i])])

\* schoolbook multiplication by a small k, from the last digit, with a carry
MulDigits[mag \in Seq(0..9), k \in Nat, carry \in Nat] ==
    IF mag = <<>>
    THEN IF carry = 0 THEN <<>> ELSE DecimalDigits[carry]
    ELSE MulDigits[SubSeq(mag, 1, Len(mag) - 1), k, (mag[Len(mag)] * k + carry) \div 10]
         \o <<(mag[Len(mag)] * k + carry) % 10>>

PyInts == [neg : BOOLEAN, mag : Seq(0..9)]

Times[n \in PyInts, k \in Nat] == Canonical[n.neg, MulDigits[n.mag, k, 0]]

\* the product kept to ten decimal digits, as a fixed-width integer would
PyMulFixedWidth(n, k) ==
    LET m == MulDigits[n.mag, k, 0]
    IN  PyIntOf(n.neg, IF Len(m) > 10 THEN SubSeq(m, Len(m) - 9, Len(m)) ELSE m)

\* n * k for a Python integer n and a small non-negative literal k
PyMul(n, k) == Times[n, k]

RefreshMs(hours) == PyMul(PyMul(PyMul(PyInt(hours), 60), 60), 1000)

----------------------------------------------------------------------------
(* json.dump(config, f, indent=2): the chunks it writes, in order          *)

StrVal(s)   == [t |-> "str", v |-> s]
IntVal(n)   == [t |-> "int", v |-> n]
DictVal(kv) == [t |-> "dict", v |-> kv]

Escape(c) ==
    IF c = "\"" THEN <<"\\", "\"">>
    ELSE IF c = "\\" THEN <<"\\", "\\">>
    ELSE IF c = "\t" THEN <<"\\", "t">>
    ELSE <<c>>

RECURSIVE EscapeAll(_)
EscapeAll(s) ==
    IF s = <<>> THEN <<>> ELSE Escape(Head(s)) \o EscapeAll(Tail(s))

JsonStr(s) == <<"\"">> \o EscapeAll(s) \o <<"\"">>

IntStr(n) ==
    (IF n.neg THEN <<"-">> ELSE <<>>) \o [i \in 1..Len(n.mag) |-> DigitChars[n.mag[i] + 1]]

IndentWidth == 2

NewlineIndent(level) == <<"\n">> \o [i \in 1..(IndentWidth * level) |-> " "]

ItemSeparator(level) == <<",">> \o NewlineIndent(level)

KeySeparator == <<":", " ">>

RECURSIVE Encode(_, _)
RECURSIVE EncodeItems(_, _, _)
Encode(val, level) ==
    IF val.t = "str" THEN <<JsonStr(val.v)>>
    ELSE IF val.t = "int" THEN <<IntStr(val.v)>>
    ELSE IF val.v = <<>> THEN <<(<<"{", "}">>)>>
    ELSE <<(<<"{">>), NewlineIndent(level + 1)>>
         \o EncodeItems(val.v, level + 1, TRUE)
         \o <<NewlineIndent(level), (<<"}">>)>>

EncodeItems(items, level, first) ==
    IF items = <<>> THEN <<>>
    ELSE (IF first THEN <<>> ELSE <<ItemSeparator(level)>>)
         \o <<JsonStr(Head(items)[1]), KeySeparator>>
         \o Encode(Head(items)[2], level)
         \o EncodeItems(Tail(items), level, FALSE)

JsonDump(cfg) == Encode(cfg, 0)

----------------------------------------------------------------------------
(* main(): the prompts, their defaults, the config dictionary              *)

\* the city asked before the image URL
PromptsCityFirst ==
    <<"wifi_ssid", "wifi_password", "weather_city", "server_url",
      "weather_lat", "weather_lon", "weather_units", "refresh_hours">>

Prompts ==
    <<"wifi_ssid", "wifi_password", "server_url", "weather_city",
      "weather_lat", "weather_lon", "weather_units", "refresh_hours">>

PromptSet == {Prompts[i] : i \in 1..Len(Prompts)}

PromptIndex(p) == CHOOSE i \in 1..Len(Prompts) : Prompts[i] = p

\* the table with celsius as the default unit
DefaultCelsius(p) ==
    CASE p = "server_url"    -> <<"http://httpbin.org/image/jpeg">>
      [] p = "weather_city"  -> <<"Seattle">>
      [] p = "weather_lat"   -> <<"47.6062">>
      [] p = "weather_lon"   -> <<"-122.3321">>
      [] p = "weather_units" -> <<"celsius">>
      [] p = "refresh_hours" -> <<"2", "4">>
      [] OTHER               -> <<>>

\* <<>> stands for default=None
Default(p) ==
    CASE p = "server_url"    -> <<"http://httpbin.org/image/jpeg">>
      [] p = "weather_city"  -> <<"Seattle">>
      [] p = "weather_lat"   -> <<"47.6062">>
      [] p = "weather_lon"   -> <<"-122.3321">>
      [] p = "weather_units" -> <<"fahrenheit">>
      [] p = "refresh_hours" -> <<"2", "4">>
      [] OTHER               -> <<>>

\* the order with the directory created before the hours are parsed
SuccessorDirFirst(p) ==
    CASE p = "start"    -> Prompts[1]
      [] p \in PromptSet ->
            IF PromptIndex(p) < Len(Prompts) THEN Prompts[PromptIndex(p) + 1] ELSE "makedirs"
      [] p = "makedirs" -> "derive"
      [] p = "derive"   -> "open"
      [] p = "open"     -> "dump"
      [] p = "dump"     -> "report"
      [] p = "report"   -> "done"

\* the statement main() runs after statement p has completed
Successor(p) ==
    CASE p = "start"    -> Prompts[1]
      [] p \in PromptSet ->
            IF PromptIndex(p) < Len(Prompts) THEN Prompts[PromptIndex(p) + 1] ELSE "derive"
      [] p = "derive"   -> "makedirs"
      [] p = "makedirs" -> "open"
      [] p = "open"     -> "dump"
      [] p = "dump"     -> "report"
      [] p = "report"   -> "done"

\* the exception swallowed: the run goes on with the next statement
OnErrorContinue(p) == Successor(p)

\* main() has no try/except: an exception raised by statement p ends the run
OnError(p) == "error"

DisplayWidth == 1200
SidebarWidthPct == 20
WakeButtonPin == 36

WifiGroup(a) ==
    DictVal(<< <<(<<"ssid">>), StrVal(a["wifi_ssid"])>>,
               <<(<<"password">>), StrVal(a["wifi_password"])>> >>)

ServerGroup(a) ==
    DictVal(<< <<(<<"url">>), StrVal(a["server_url"])>> >>)

WeatherGroup(a) ==
    DictVal(<< <<(<<"latitude">>), StrVal(a["weather_lat"])>>,
               <<(<<"longitude">>), StrVal(a["weather_lon"])>>,
               <<(<<"city">>), StrVal(a["weather_city"])>>,
               <<(<<"units">>), StrVal(a["weather_units"])>> >>)

UpdateGroup(ms) ==
    DictVal(<< <<(<<"refreshMs">>), IntVal(ms)>> >>)

\* the display group without its second constant
DisplayGroupWidthOnly ==
    DictVal(<< <<(<<"width">>), IntVal(SmallInt(DisplayWidth))>> >>)

DisplayGroup ==
    DictVal(<< <<(<<"width">>), IntVal(SmallInt(DisplayWidth))>>,
               <<(<<"sidebarWidthPct">>), IntVal(SmallInt(SidebarWidthPct))>> >>)

HardwareGroup ==
    DictVal(<< <<(<<"wakeButtonPin">>), IntVal(SmallInt(WakeButtonPin))>> >>)

BuildConfig(a, ms) ==
    DictVal(<< <<(<<"wifi">>), WifiGroup(a)>>,
               <<(<<"server">>), ServerGroup(a)>>,
               <<(<<"weather">>), WeatherGroup(a)>>,
               <<(<<"update">>), UpdateGroup(ms)>>,
               <<(<<"display">>), DisplayGroup>>,
               <<(<<"hardware">>), HardwareGroup>> >>)

NoFile == [exists |-> FALSE, text |-> <<>>]

----------------------------------------------------------------------------
(* get_input(prompt, default)                                              *)

\* the line taken as typed, whitespace and all
ResponseNoStrip(line) == line

\* input(...).strip()
Response(line) == Strip(line)

\* no loop: whatever was typed is accepted
AsksAgainNever(default, response) == FALSE

\* `while not response` of the branch without a default
AsksAgain(default, response) == default = <<>> /\ response = <<>>

\* the response returned whether or not it is empty
ReturnedResponseOnly(default, response) == response

\* the value get_input returns once it returns
Returned(default, response) ==
    IF default # <<>>
    THEN (IF response # <<>> THEN response ELSE default)
    ELSE response

----------------------------------------------------------------------------
(* The lines an operator may type                                          *)

MaxReprompts == 2

RequiredLines ==
    { <<>>, <<" ", "\t">>, <<"HomeNet">>, <<" ", "secret123", "\t">> }

TextLines ==
    { <<>>, <<"\t", " ">>, <<" ", "New", " ", "York", " ">> }

HourLines ==
    { <<>>, <<" ">>, <<"0">>, <<"1">>, <<"\t", "2", "4", " ">>, <<"0", "0", "7">>,
      <<"+", "7">>, <<"-", "3">>, <<"1", "_", "0">>, <<"5", "9", "7">>,
      <<"1", "1", "9", "4">>, <<"9", "9", "9", "9", "9">>,
      <<"abc">>, <<"1", ".", "5">>, <<"1", " ", "2">>, <<"1", "_">>, <<"-">> }

LinesAt(p) ==
    IF p = "refresh_hours" THEN HourLines
    ELSE IF Default(p) = <<>> THEN RequiredLines
    ELSE TextLines

\* the lines of a scripted session that is run twice
ScriptLinesAt(p) ==
    IF p = "refresh_hours" THEN { <<>>, <<"1">>, <<"abc">> }
    ELSE IF Default(p) = <<>> THEN { <<>>, <<"HomeNet">> }
    ELSE { <<>>, <<" ", "x">> }

----------------------------------------------------------------------------
(* The steps of one run                                                    *)

Init ==
    /\ pc = "start"
    /\ seen = <<>>
    /\ returned = <<>>
    /\ answers = <<>>
    /\ refresh_ms = <<>>
    /\ config = <<>>
    /\ data \in {"absent", "dir", "notdir"}
    /\ file \in
         IF data = "dir"
         THEN { NoFile,
                [exists |-> TRUE, text |-> <<(<<"old">>)>>] }
         ELSE { NoFile }
    /\ handle = FALSE
    /\ out = {}
    /\ raised = ""
    /\ run = 1
    /\ tape = <<>>
    /\ pos = 0
    /\ prevData = data
    /\ prevFile = file

\* lines 23-27: the banner
Begin ==
    /\ pc = "start"
    /\ pc' = Successor(pc)
    /\ UNCHANGED <<seen, returned, answers, refresh_ms, config, data, file, handle, out,
                   raised>>
    /\ UNCHANGED envVars

\* One input() of the get_input() call at prompt pc, reading `line`.
GetInput(line) ==
    /\ pc \in PromptSet
    /\ LET response == Response(line)
       IN  IF AsksAgain(Default(pc), response)
           THEN \* lines 18-19: ask again
                /\ Len(seen) < MaxReprompts
                /\ seen' = Append(seen, line)
                /\ UNCHANGED <<pc, returned, answers>>
           ELSE \* lines 15 and 20: return
                /\ seen' = <<>>
                /\ returned' = <<[prompt |-> pc, lines |-> Append(seen, line),
                                  value |-> Returned(Default(pc), response)]>>
                /\ answers' = answers @@ (pc :> Returned(Default(pc), response))
                /\ pc' = Successor(pc)
    /\ UNCHANGED <<refresh_ms, config, data, file, handle, out, raised>>

\* input() raises instead of returning a line (KeyboardInterrupt, EOFError)
Interrupt ==
    /\ pc \in PromptSet
    /\ pc' = OnError(pc)
    /\ raised' = "input"
    /\ UNCHANGED <<seen, returned, answers, refresh_ms, config, data, file, handle, out>>
    /\ UNCHANGED envVars

\* lines 49-77: int(refresh_hours) * 60 * 60 * 1000, then the config dictionary
Derive ==
    /\ pc = "derive"
    /\ IF IntLiteral(answers["refresh_hours"])
       THEN /\ refresh_ms' = <<RefreshMs(answers["refresh_hours"])>>
            /\ config' = <<BuildConfig(answers, RefreshMs(answers["refresh_hours"]))>>
            /\ pc' = Successor(pc)
            /\ UNCHANGED raised
       ELSE /\ pc' = OnError(pc)
            /\ raised' = "int"
            /\ UNCHANGED <<refresh_ms, config>>
    /\ UNCHANGED <<seen, returned, answers, data, file, handle, out>>
    /\ UNCHANGED envVars

\* line 80: os.makedirs("data", exist_ok=True)
MakeDirs ==
    /\ pc = "makedirs"
    /\ \/ /\ data = "dir"
          /\ pc' = Successor(pc)
          /\ UNCHANGED <<data, raised>>
       \/ /\ data = "absent"
          /\ data' = "dir"
          /\ pc' = Successor(pc)
          /\ UNCHANGED raised
       \/ /\ data # "dir"
          /\ pc' = OnError(pc)
          /\ raised' = "makedirs"
          /\ UNCHANGED data
    /\ UNCHANGED <<seen, returned, answers, refresh_ms, config, file, handle, out>>
    /\ UNCHANGED envVars

\* open(config_path, 'a')
OpenModeAppend == "a"

OpenMode == "w"

\* line 84: open(config_path, 'w')
OpenFile ==
    /\ pc = "open"
    /\ \/ /\ data = "dir"
          /\ file' = [exists |-> TRUE,
                      text |-> IF OpenMode = "w" THEN <<>> ELSE file.text]
          /\ handle' = TRUE
          /\ pc' = Successor(pc)
          /\ UNCHANGED raised
       \/ /\ pc' = OnError(pc)
          /\ raised' = "open"
          /\ UNCHANGED <<file, handle>>
    /\ UNCHANGED <<seen, returned, answers, refresh_ms, config, data, out>>
    /\ UNCHANGED envVars

\* where a failing write may stop: a proper prefix of the chunks
FailCuts(doc) == {0, Len(doc) \div 2, Len(doc) - 1}

\* line 85 and the end of the with block: json.dump(config, f, indent=2), close
Dump ==
    /\ pc = "dump"
    /\ LET doc == JsonDump(config[1])
       IN  \/ /\ file' = [file EXCEPT !.text = @ \o doc]
              /\ pc' = Successor(pc)
              /\ UNCHANGED raised
           \/ \E n \in FailCuts(doc) :
                /\ file' = [file EXCEPT !.text = @ \o SubSeq(doc, 1, n)]
                /\ pc' = OnError(pc)
                /\ raised' = "dump"
    /\ handle' = FALSE
    /\ UNCHANGED <<seen, returned, answers, refresh_ms, config, data, out>>
    /\ UNCHANGED envVars

\* lines 87-95: "Configuration saved", the next steps, the echo of the config
Report ==
    /\ pc = "report"
    /\ out' = {"saved", "next_steps", "echo"}
    /\ pc' = Successor(pc)
    /\ UNCHANGED <<seen, returned, answers, refresh_ms, config, data, file, handle, raised>>
    /\ UNCHANGED envVars

\* The operator types a line at the prompt.
TypeLine ==
    /\ \E line \in LinesAt(pc) : GetInput(line)
    /\ UNCHANGED envVars

Next ==
    \/ Begin
    \/ TypeLine
    \/ Interrupt
    \/ Derive
    \/ MakeDirs
    \/ OpenFile
    \/ Dump
    \/ Report

Spec == Init /\ [][Next]_vars

----------------------------------------------------------------------------
(* The tool run twice on the same scripted input                           *)

\* first run: the script is typed, and kept
Record ==
    /\ run = 1
    /\ \E line \in ScriptLinesAt(pc) :
          /\ GetInput(line)
          /\ tape' = Append(tape, line)
    /\ UNCHANGED <<run, pos, prevData, prevFile>>

\* second run: the same lines, in the same order
Replay ==
    /\ run = 2
    /\ pos < Len(tape)
    /\ GetInput(tape[pos + 1])
    /\ pos' = pos + 1
    /\ UNCHANGED <<run, tape, prevData, prevFile>>

\* the tool is started again after a completed run: a new process, the same disk
Rerun ==
    /\ run = 1
    /\ pc = "done"
    /\ run' = 2
    /\ pc' = "start"
    /\ seen' = <<>>
    /\ returned' = <<>>
    /\ answers' = <<>>
    /\ refresh_ms' = <<>>
    /\ config' = <<>>
    /\ out' = {}
    /\ prevData' = data
    /\ prevFile' = file
    /\ UNCHANGED <<data, file, handle, raised, tape, pos>>

NextTwice ==
    \/ Begin
    \/ Record
    \/ Replay
    \/ Rerun
    \/ Derive
    \/ MakeDirs
    \/ OpenFile
    \/ Dump
    \/ Report

SpecTwice == Init /\ [][NextTwice]_vars

----------------------------------------------------------------------------
(* A cooperative operator and a running interpreter                        *)

\* a line that ends the get_input() call in progress
Answer ==
    /\ \E line \in LinesAt(pc) :
          /\ ~AsksAgain(Default(pc), Response(line))
          /\ GetInput(line)
    /\ UNCHANGED envVars

Compute == Begin \/ Derive \/ MakeDirs \/ OpenFile \/ Dump \/ Report

SpecLive == Init /\ [][Next]_vars /\ WF_vars(Answer) /\ WF_vars(Compute)

----------------------------------------------------------------------------
(* Properties                                                              *)

RequiredPrompts == {"wifi_ssid", "wifi_password"}

OptionalPrompts ==
    {"server_url", "weather_city", "weather_lat", "weather_lon", "weather_units",
     "refresh_hours"}

Blank(line) == Strip(line) = <<>>

\* d[key] for a dictionary value d
Get(d, key) ==
    LET i == CHOOSE j \in 1..Len(d.v) : d.v[j][1] = <<key>>
    IN  d.v[i][2]

Quoted(s) == <<"\"">> \o s \o <<"\"">>

\* the chunk written after `"key": ` in data/config.json
FileValue(key) ==
    LET i == CHOOSE j \in 1..(Len(file.text) - 2) :
                /\ file.text[j] = Quoted(<<key>>)
                /\ file.text[j + 1] = <<":", " ">>
    IN  file.text[i + 2]

Written == pc \in {"report", "done"}

\* C1: at a required prompt (WiFi SSID, WiFi password) get_input skips every
\* line that is blank after trimming, returns the first non-blank line,
\* trimmed, and that value (never empty, never a default) is what main()
\* keeps and puts into wifi.ssid / wifi.password.
C1_RequiredTakesFirstNonBlank ==
    /\ \A i \in 1..Len(returned) :
          LET r == returned[i]
              n == Len(r.lines)
          IN  r.prompt \in RequiredPrompts =>
                /\ \A j \in 1..(n - 1) : Blank(r.lines[j])
                /\ ~Blank(r.lines[n])
                /\ r.value = Strip(r.lines[n])
                /\ answers[r.prompt] = r.value
    /\ \A p \in RequiredPrompts \cap DOMAIN answers :
          /\ answers[p] # <<>>
          /\ answers[p] \in {Strip(l) : l \in RequiredLines}
    /\ config # <<>> =>
          /\ Get(Get(config[1], "wifi"), "ssid") = StrVal(answers["wifi_ssid"])
          /\ Get(Get(config[1], "wifi"), "password") = StrVal(answers["wifi_password"])
    /\ Written =>
          /\ FileValue("ssid") = Quoted(answers["wifi_ssid"])
          /\ FileValue("password") = Quoted(answers["wifi_password"])

C1_Witness ==
    /\ returned # <<>>
    /\ returned[1].prompt = "wifi_password"
    /\ returned[1].lines = << <<>>, <<" ", "\t">>, <<" ", "secret123", "\t">> >>
    /\ answers["wifi_password"] = <<"secret123">>

DocumentedDefault(p) ==
    CASE p = "server_url"    -> <<"http://httpbin.org/image/jpeg">>
      [] p = "weather_city"  -> <<"Seattle">>
      [] p = "weather_lat"   -> <<"47.6062">>
      [] p = "weather_lon"   -> <<"-122.3321">>
      [] p = "weather_units" -> <<"fahrenheit">>
      [] p = "refresh_hours" -> <<"2", "4">>

\* C2: at an optional prompt get_input reads exactly one line and never asks
\* again; a line that is blank after trimming yields the documented default
\* verbatim, any other line yields the line trimmed.
C2_OptionalOneLineOrDefault ==
    /\ pc \in OptionalPrompts => seen = <<>>
    /\ \A i \in 1..Len(returned) :
          LET r == returned[i]
          IN  r.prompt \in OptionalPrompts =>
                /\ Len(r.lines) = 1
                /\ r.value = IF Blank(r.lines[1])
                             THEN DocumentedDefault(r.prompt)
                             ELSE Strip(r.lines[1])
                /\ answers[r.prompt] = r.value

C2_Witness ==
    /\ returned # <<>>
    /\ returned[1].prompt = "weather_units"
    /\ returned[1].lines = << <<"\t", " ">> >>
    /\ answers["weather_units"] = <<"fahrenheit">>
    /\ answers["weather_city"] = <<"New", " ", "York">>

PlainDecimal(s) == s # <<>> /\ \A i \in 1..Len(s) : IsDigit(s[i])

RECURSIVE NatOf(_)
NatOf(s) == IF s = <<>> THEN 0 ELSE NatOf(SubSeq(s, 1, Len(s) - 1)) * 10 + DigitVal(s[Len(s)])

RECURSIVE NatOfMag(_)
NatOfMag(m) == IF m = <<>> THEN 0 ELSE NatOfMag(SubSeq(m, 1, Len(m) - 1)) * 10 + m[Len(m)]

\* mag is the decimal numeral of n * 3,600,000 = (n * 36) * 100,000
IsHoursTimes3600000(mag, n) ==
    IF n = 0 THEN mag = <<0>>
    ELSE /\ Len(mag) > 5
         /\ mag[1] # 0
         /\ \A i \in (Len(mag) - 4)..Len(mag) : mag[i] = 0
         /\ NatOfMag(SubSeq(mag, 1, Len(mag) - 5)) = n * 36

Numeral(mag) == [i \in 1..Len(mag) |-> DigitChars[mag[i] + 1]]

\* C3: for an hours answer that is a plain non-negative decimal h (the default
\* 24 when the line is blank), refresh_ms and the written update.refreshMs are
\* exactly h * 3,600,000, however large h is.
C3_RefreshMsExact ==
    refresh_ms # <<>> =>
        LET h  == answers["refresh_hours"]
            ms == refresh_ms[1]
        IN  /\ PlainDecimal(h) =>
                /\ ~ms.neg
                /\ IsHoursTimes3600000(ms.mag, NatOf(h))
                /\ Get(Get(config[1], "update"), "refreshMs") = IntVal(ms)
                /\ Written => FileValue("refreshMs") = Numeral(ms.mag)
            /\ h = <<"2", "4">> => ms.mag = <<8, 6, 4, 0, 0, 0, 0, 0>>
            /\ h = <<"1">> => ms.mag = <<3, 6, 0, 0, 0, 0, 0>>
            /\ h = <<"0">> => ms.mag = <<0>>
            /\ h = <<"+", "7">> => ms = [neg |-> FALSE, mag |-> <<2, 5, 2, 0, 0, 0, 0, 0>>]
            /\ h = <<"1", "_", "0">> => ms = [neg |-> FALSE, mag |-> <<3, 6, 0, 0, 0, 0, 0, 0>>]
            /\ Blank(returned[1].lines[1]) /\ Written =>
                  FileValue("refreshMs") = <<"8", "6", "4", "0", "0", "0", "0", "0">>

C3_Witness ==
    /\ pc = "done"
    /\ answers["refresh_hours"] = <<"9", "9", "9", "9", "9">>
    /\ FileValue("refreshMs") = <<"3", "5", "9", "9", "9", "6", "4", "0", "0", "0", "0", "0">>

BadHours == { <<"abc">>, <<"1", ".", "5">>, <<"1", " ", "2">>, <<"1", "_">>, <<"-">> }

\* C4: an hours answer that is no integer ends the run at the derivation,
\* without another prompt, and before any effect on the file system: data/ is
\* not created and data/config.json is as it was before the run.
C4_BadHoursNoFileEffect ==
    ("refresh_hours" \in DOMAIN answers /\ answers["refresh_hours"] \in BadHours) =>
        /\ pc \in {"derive", "error"}
        /\ pc = "error" => raised = "int"
        /\ data = prevData
        /\ file = prevFile
        /\ ~handle
        /\ config = <<>>
        /\ out = {}

C4_Witness ==
    /\ pc = "error"
    /\ raised = "int"
    /\ answers["refresh_hours"] = <<"abc">>
    /\ file.exists
    /\ file = prevFile

NL(n) == <<"\n">> \o [i \in 1..n |-> " "]

CommaNL(n) == <<",">> \o NL(n)

Colon == <<":", " ">>

\* the document of section 6 of the specification, as json.dump lays it out
Template(ssid, password, url, latitude, longitude, city, units, ms) ==
    << <<"{">>,
       NL(2), Quoted(<<"wifi">>), Colon, <<"{">>,
       NL(4), Quoted(<<"ssid">>), Colon, Quoted(ssid),
       CommaNL(4), Quoted(<<"password">>), Colon, Quoted(password),
       NL(2), <<"}">>,
       CommaNL(2), Quoted(<<"server">>), Colon, <<"{">>,
       NL(4), Quoted(<<"url">>), Colon, Quoted(url),
       NL(2), <<"}">>,
       CommaNL(2), Quoted(<<"weather">>), Colon, <<"{">>,
       NL(4), Quoted(<<"latitude">>), Colon, Quoted(latitude),
       CommaNL(4), Quoted(<<"longitude">>), Colon, Quoted(longitude),
       CommaNL(4), Quoted(<<"city">>), Colon, Quoted(city),
       CommaNL(4), Quoted(<<"units">>), Colon, Quoted(units),
       NL(2), <<"}">>,
       CommaNL(2), Quoted(<<"update">>), Colon, <<"{">>,
       NL(4), Quoted(<<"refreshMs">>), Colon, ms,
       NL(2), <<"}">>,
       CommaNL(2), Quoted(<<"display">>), Colon, <<"{">>,
       NL(4), Quoted(<<"width">>), Colon, <<"1", "2", "0", "0">>,
       CommaNL(4), Quoted(<<"sidebarWidthPct">>), Colon, <<"2", "0">>,
       NL(2), <<"}">>,
       CommaNL(2), Quoted(<<"hardware">>), Colon, <<"{">>,
       NL(4), Quoted(<<"wakeButtonPin">>), Colon, <<"3", "6">>,
       NL(2), <<"}">>,
       NL(0), <<"}">> >>

HomeNetScenario ==
    /\ answers["wifi_ssid"] = <<"HomeNet">>
    /\ answers["wifi_password"] = <<"secret123">>
    /\ \A p \in OptionalPrompts : answers[p] = DocumentedDefault(p)

\* C5: after a completed write the file is exactly the six groups of the
\* documented shape, with the operator's answers in place and with
\* display.width = 1200, display.sidebarWidthPct = 20, hardware.wakeButtonPin
\* = 36; with HomeNet / secret123 and every other answer left at its default
\* it holds the documented values and refreshMs = 86400000.
C5_WrittenShape ==
    Written =>
        /\ file.exists
        /\ file.text = Template(answers["wifi_ssid"], answers["wifi_password"],
                                answers["server_url"], answers["weather_lat"],
                                answers["weather_lon"], answers["weather_city"],
                                answers["weather_units"],
                                (IF refresh_ms[1].neg THEN <<"-">> ELSE <<>>)
                                    \o Numeral(refresh_ms[1].mag))
        /\ HomeNetScenario =>
              file.text = Template(<<"HomeNet">>, <<"secret123">>,
                                   <<"http://httpbin.org/image/jpeg">>, <<"47.6062">>,
                                   <<"-122.3321">>, <<"Seattle">>, <<"fahrenheit">>,
                                   <<"8", "6", "4", "0", "0", "0", "0", "0">>)

C5_Witness ==
    /\ pc = "done"
    /\ HomeNetScenario
    /\ FileValue("wakeButtonPin") = <<"3", "6">>
    /\ FileValue("city") = Quoted(<<"Seattle">>)
\* C6: the tool run a second time on the same input lines succeeds although
\* data/ and data/config.json exist, and leaves the file with the content the
\* first run gave it: the file is overwritten, and holds one document that
\* depends on this run's answers only.
C6_SecondRunSameFile ==
    /\ Written => file = [exists |-> TRUE, text |-> JsonDump(config[1])]
    /\ run = 2 =>
          /\ prevData = "dir" /\ prevFile.exists
          /\ pc = "makedirs" => data = "dir"
          /\ raised # "makedirs"
          /\ Written => file = prevFile

C6_Witness ==
    /\ run = 2
    /\ pc = "done"
    /\ prevFile.exists
    /\ file = prevFile
    /\ pos = Len(tape)
    /\ Len(tape) > Len(Prompts)

StringKeys == {"ssid", "password", "url", "latitude", "longitude", "city", "units"}

StringPath(k) ==
    CASE k \in {"ssid", "password"} -> "wifi"
      [] k = "url" -> "server"
      [] OTHER -> "weather"

Trimmed(s) == s # <<>> /\ s[1] \notin {" ", "\t"} /\ s[Len(s)] \notin {" ", "\t"}

WriteBegun == handle \/ pc \in {"dump", "report", "done"} \/ raised = "dump"

Count(text, chunk) == Cardinality({i \in 1..Len(text) : text[i] = chunk})

\* a whole JSON object: it ends with a closing brace and every brace is closed
HoldsConfiguration(f) ==
    /\ f.exists
    /\ f.text # <<>>
    /\ f.text[Len(f.text)] = <<"}">>
    /\ Count(f.text, <<"{">>) = Count(f.text, <<"}">>)

\* C7: once the write has begun the config dictionary is complete: the seven
\* string fields are non-empty and carry no leading or trailing whitespace, and
\* update.refreshMs is an integer; a configuration this run leaves in the file
\* has every field, none of them empty.
C7_CompleteBeforeWrite ==
    /\ WriteBegun =>
          /\ config # <<>>
          /\ \A k \in StringKeys :
                LET val == Get(Get(config[1], StringPath(k)), k)
                IN  val.t = "str" /\ Trimmed(val.v)
          /\ LET ms == Get(Get(config[1], "update"), "refreshMs")
             IN  /\ ms.t = "int"
                 /\ ms.v.mag # <<>>
                 /\ \A i \in 1..Len(ms.v.mag) : ms.v.mag[i] \in 0..9
    /\ (file # prevFile /\ HoldsConfiguration(file)) =>
          /\ \A k \in StringKeys :
                /\ Count(file.text, Quoted(<<k>>)) = 1
                /\ Len(FileValue(k)) > 2
          /\ \A k \in {"refreshMs", "width", "sidebarWidthPct", "wakeButtonPin"} :
                /\ Count(file.text, Quoted(<<k>>)) = 1
                /\ FileValue(k) # <<>>

C7_Witness ==
    /\ pc = "dump"
    /\ handle
    /\ file.text = <<>>
    /\ returned[1].lines = << <<" ">> >>
    /\ Get(Get(config[1], "weather"), "city").v = <<"New", " ", "York">>
    /\ Get(Get(config[1], "server"), "url").v = <<"http://httpbin.org/image/jpeg">>

Order ==
    <<"start", "wifi_ssid", "wifi_password", "server_url", "weather_city",
      "weather_lat", "weather_lon", "weather_units", "refresh_hours", "derive",
      "makedirs", "open", "dump", "report", "done">>

Idx(p) == CHOOSE i \in 1..Len(Order) : Order[i] = p

Stage(p) ==
    CASE p = "start" -> 0
      [] p \in {"wifi_ssid", "wifi_password"} -> 1
      [] p = "server_url" -> 2
      [] p \in {"weather_city", "weather_lat", "weather_lon", "weather_units"} -> 3
      [] p \in {"refresh_hours", "derive"} -> 4
      [] p \in {"makedirs", "open", "dump", "report"} -> 5
      [] p = "done" -> 6

\* the prompts answered when main() is at statement p
AnsweredAt(p) == {Order[i] : i \in {j \in 2..9 : j < Idx(p)}}

C8_Inv ==
    pc # "error" =>
        /\ DOMAIN answers = AnsweredAt(pc)
        /\ Stage(pc) >= 5 => refresh_ms # <<>> /\ config # <<>>
        /\ Stage(pc) < 5 => config = <<>> /\ file = prevFile /\ data = prevData
        /\ pc = "done" <=> out # {}
        /\ pc = "done" => file.exists /\ file.text = JsonDump(config[1])

C8_Step ==
    pc' # pc =>
        /\ pc # "error" /\ pc # "done"
        /\ pc' # "error" =>
              /\ Idx(pc') = Idx(pc) + 1
              /\ Stage(pc') \in {Stage(pc), Stage(pc) + 1}

\* C8: the run goes Start, CollectingWifi, CollectingServer, CollectingWeather,
\* CollectingUpdate, Persisting, Done in that order, one statement at a time,
\* the eight prompts in their fixed order; a re-prompt stays at its prompt;
\* Persisting begins only with eight answers and refresh_ms derived; Done is
\* reached only with the file written.
C8_LinearRun == [][C8_Step]_vars /\ []C8_Inv

C8_Witness ==
    /\ pc = "done"
    /\ DOMAIN answers = PromptSet
    /\ prevFile.exists
    /\ file # prevFile

C9_Step ==
    (pc \in RequiredPrompts /\ pc' # pc) =>
        \/ pc' = "error" /\ raised' = "input"
        \/ /\ returned'[1].prompt = pc
           /\ ~Blank(returned'[1].lines[Len(returned'[1].lines)])
           /\ answers'[pc] = Strip(returned'[1].lines[Len(returned'[1].lines)])
           /\ raised' = ""

Ended == pc = "done" \/ pc = "error"

\* C9: a required prompt is left only by a non-blank line (or by the
\* interpreter being interrupted): no number of blank lines becomes an error
\* or a default; and with an operator who eventually answers every prompt the
\* run ends, in Done unless a statement raised.
C9_BlocksUntilAnswered ==
    /\ [][C9_Step]_vars
    /\ [](pc \in RequiredPrompts => file = prevFile /\ data = prevData /\ out = {})
    /\ [](pc = "error" => raised # "")
    /\ <>Ended

C9_Witness ==
    /\ pc = "wifi_password"
    /\ Len(seen) = MaxReprompts
    /\ \A i \in 1..Len(seen) : Blank(seen[i])
    /\ file = prevFile

C10_Inv ==
    /\ raised # "" => pc = "error" /\ out = {}
    /\ raised = "makedirs" => file = prevFile /\ data = prevData /\ ~handle
    /\ raised = "open" => file = prevFile /\ ~handle

\* C10: a failure of os.makedirs, open or the write ends the run: no retry, no
\* Done, no "Configuration saved" and no echo; when os.makedirs fails the file
\* is not opened and stays as it was.
C10_IoFailureFatal ==
    /\ []C10_Inv
    /\ [][pc = "error" => pc' = "error" /\ out' = out /\ file' = file]_vars

C10_Witness ==
    /\ pc = "error"
    /\ raised = "dump"
    /\ file.exists
    /\ file # prevFile
    /\ ~HoldsConfiguration(file)

====
